---- MODULE Spec2Model ----
(***************************************************************************)
(* Server-side mailslot management (server/mailslot.c).                    *)
(*                                                                         *)
(* The server is single threaded: every request handler and every          *)
(* main-loop callback runs to completion, so each is one action.  The      *)
(* processes that own handles read and write the datagram socket pair      *)
(* directly and concurrently with the server; their reads and writes are   *)
(* the actions ClientWrite and ClientRead, and a read that falls between   *)
(* the two polls made by mailslot_queue_async is the input `drained` of    *)
(* QueueAsync.                                                             *)
(***************************************************************************)
EXTENDS Integers, Sequences, FiniteSets, TLC

\* ------------------------------------------------------------------ bounds
MaxSlots   == 2     \* mailslot objects that can be allocated at a time
MaxWriters == 3     \* mail_writer objects that can be allocated at a time
MaxAsyncs  == 3     \* asynchronous reads accepted during a run
MaxMsgs    == 2     \* datagrams buffered in one socket pair

Slots    == 1..MaxSlots
AsyncIds == 1..MaxAsyncs
NoSlot   == 0

\* --------------------------------------------------------------- constants
MAILSLOT_WAIT_FOREVER == -1
MAILSLOT_NO_MESSAGE   == -1

STATUS_SUCCESS               == "STATUS_SUCCESS"
STATUS_OBJECT_NAME_INVALID   == "STATUS_OBJECT_NAME_INVALID"
STATUS_OBJECT_NAME_COLLISION == "STATUS_OBJECT_NAME_COLLISION"
STATUS_OBJECT_NAME_NOT_FOUND == "STATUS_OBJECT_NAME_NOT_FOUND"
STATUS_OBJECT_TYPE_MISMATCH  == "STATUS_OBJECT_TYPE_MISMATCH"
STATUS_NO_SUCH_FILE          == "STATUS_NO_SUCH_FILE"
STATUS_SHARING_VIOLATION     == "STATUS_SHARING_VIOLATION"
STATUS_INVALID_PARAMETER     == "STATUS_INVALID_PARAMETER"
STATUS_IO_TIMEOUT            == "STATUS_IO_TIMEOUT"
STATUS_INVALID_HANDLE        == "STATUS_INVALID_HANDLE"
STATUS_TOO_MANY_OPENED_FILES == "STATUS_TOO_MANY_OPENED_FILES"
STATUS_NO_MEMORY             == "STATUS_NO_MEMORY"
STATUS_ALERTED               == "STATUS_ALERTED"
STATUS_CANCELLED             == "STATUS_CANCELLED"
STATUS_TIMEOUT               == "STATUS_TIMEOUT"

\* Bit masks are sets of the bits that are set; x & BIT is BIT \in x.
GENERIC_READ     == "GENERIC_READ"
GENERIC_WRITE    == "GENERIC_WRITE"
FILE_SHARE_READ  == "FILE_SHARE_READ"
FILE_SHARE_WRITE == "FILE_SHARE_WRITE"
POLLIN           == "POLLIN"
POLLERR          == "POLLERR"
ASYNC_TYPE_READ  == "ASYNC_TYPE_READ"
ASYNC_TYPE_WRITE == "ASYNC_TYPE_WRITE"
MAILSLOT_SET_READ_TIMEOUT == "MAILSLOT_SET_READ_TIMEOUT"

\* ------------------------------------------------------------------ inputs
AccessMasks  == {{GENERIC_READ}, {GENERIC_WRITE}}
SharingMasks == SUBSET {FILE_SHARE_READ, FILE_SHARE_WRITE}
ReadTimeouts == {1000, MAILSLOT_WAIT_FOREVER}
MsgSizes     == {0, 100}
MsgLens      == {0, 3}
AsyncTypes   == {ASYNC_TYPE_READ, ASYNC_TYPE_WRITE}
PollEvents   == {{POLLIN}, {POLLERR}, {POLLIN, POLLERR}}
\* outcome of the transport allocation in create_mailslot
AllocOutcomes == {"ok", "socketpair", "fd", "write_fd"}

\* Names are sequences of WCHARs.
NameA     == <<"m","a","i","l","s","l","o","t","\\","a">>
NameB     == <<"M","A","I","L","S","L","O","T","\\","B">>
NameOther == <<"m","a","i","l","s","l","o","t","\\","e">>
NameShort == <<"m","a","i","l">>
\* names of 5 to 8 WCHARs: longer than strlenW(slot) in bytes, shorter in WCHARs
NameMid5  == <<"m","a","i","l","s">>
NameMid8  == <<"m","a","i","l","s","l","o","t">>
NameWrong == <<"m","a","i","l","b","o","x","\\","a","b">>
Names     == {NameA, NameB, NameOther, NameShort, NameMid5, NameMid8, NameWrong}
\* The WCHARs that lie in memory behind the request data.  strncmpiW reads
\* them when the name has fewer WCHARs than slot: any of them can be there.
Behinds   == {<<"l","o","t","\\","x">>, <<"\\">>, <<"x">>}
\* names bound in sync_namespace to objects that are not mailslots
OtherNames == {NameOther}

\* ------------------------------------------------------------------- state
VARIABLES
    mailslot,   \* struct mailslot, per object slot; its writers list holds the
                \* struct mail_writer linked into it, its read_q the queued asyncs
    async,      \* every asynchronous read accepted so far: where it was queued,
                \* whether it has a deadline, and the statuses delivered to it
    events,     \* poll events armed on each mailslot's read fd (set_fd_events)
    msgs,       \* datagrams buffered in each mailslot's socket pair (their sizes)
    handles,    \* the mailslots the handle table holds a handle to
    err,        \* current->error of the last request
    aborted     \* an assert() failed: the server is gone

vars == <<mailslot, async, events, msgs, handles, err, aborted>>

FreeMailslot == [live |-> FALSE, name |-> <<>>, refcount |-> 0,
                 fd |-> FALSE, write_fd |-> FALSE,
                 max_msgsize |-> 0, read_timeout |-> 0,
                 writers |-> <<>>, read_q |-> <<>>]
NoReply      == [max_msgsize |-> 0, read_timeout |-> 0,
                 msg_count |-> 0, next_msgsize |-> 0]
FreeAsync    == [mailslot |-> NoSlot, timeout |-> FALSE, delivered |-> <<>>]

\* Handles: 0 is no handle; alloc_handle() gives a handle naming its object.
NoHandle          == <<>>
MailslotHandle(m) == <<"mailslot", m>>
WriterHandle(m)   == <<"writer", m>>

\* The server's memory as one value, threaded through the functions below.
Cur == [mailslot |-> mailslot, async |-> async,
        events |-> events, msgs |-> msgs, handles |-> handles,
        err |-> err, aborted |-> aborted]

Commit(S) ==
    /\ mailslot' = S.mailslot
    /\ async'    = S.async
    /\ events'   = S.events
    /\ msgs'     = S.msgs
    /\ handles'  = S.handles
    /\ err'      = S.err
    /\ aborted'  = S.aborted

Init ==
    /\ mailslot = [m \in Slots |-> FreeMailslot]
    /\ async    = [a \in AsyncIds |-> FreeAsync]
    /\ events   = [m \in Slots |-> {}]
    /\ msgs     = [m \in Slots |-> <<>>]
    /\ handles  = {}
    /\ err      = STATUS_SUCCESS
    /\ aborted  = FALSE

\* ------------------------------------------------------- sequence helpers
\* list_remove(): the list without its i-th entry
RemoveAt(s, i) == SubSeq(s, 1, i - 1) \o SubSeq(s, i + 1, Len(s))

SeqRange(s) == {s[i] : i \in 1..Len(s)}

IndexOf(s, x) == CHOOSE i \in 1..Len(s) : s[i] = x

Min(S) == CHOOSE x \in S : \A y \in S : x <= y

\* set_error()
set_error(S, status) == [S EXCEPT !.err = status]

\* clear_error(), called before every request handler
clear_error(S) == set_error(S, STATUS_SUCCESS)

\* --------------------------------------------------------- wide strings
Uppers == <<"A","B","E","I","L","M","O","S","T","X">>
Lowers == <<"a","b","e","i","l","m","o","s","t","x">>

\* tolowerW()
tolowerW(c) ==
    IF \E i \in 1..Len(Uppers) : Uppers[i] = c
    THEN Lowers[CHOOSE i \in 1..Len(Uppers) : Uppers[i] = c]
    ELSE c

\* strlenW()
strlenW(s) == Len(s)

\* The character at (1-based) position i of a string; the terminating NUL
\* past its end.
CharAt(s, i) == IF i <= Len(s) THEN s[i] ELSE "NUL"

\* strncmpiW(): 0 iff the first n characters agree, case folded
RECURSIVE strncmpiW_from(_, _, _, _)
strncmpiW_from(s1, s2, n, i) ==
    IF i > n THEN 0
    ELSE IF tolowerW(CharAt(s1, i)) # tolowerW(CharAt(s2, i)) THEN 1
    ELSE IF CharAt(s1, i) = "NUL" THEN 0
    ELSE strncmpiW_from(s1, s2, n, i + 1)

strncmpiW(s1, s2, n) == strncmpiW_from(s1, s2, n, 1)

\* get_req_data_size(): the size of the name in bytes, two per WCHAR
get_req_data_size(name) == Len(name) + Len(name)

\* static const WCHAR slot[] in create_mailslot
slot == <<"m","a","i","l","s","l","o","t","\\">>

\* ------------------------------------------------------ objects (object.c)
LiveSlots(S) == {m \in Slots : S.mailslot[m].live}

\* the number of struct mail_writer allocated
RECURSIVE SumWriters(_, _)
SumWriters(S, ms) ==
    IF ms = {} THEN 0
    ELSE LET m == CHOOSE x \in ms : TRUE
         IN  Len(S.mailslot[m].writers) + SumWriters(S, ms \ {m})
NumWriters(S) == SumWriters(S, Slots)

\* find_object(): the object bound to a name in sync_namespace, with a
\* reference taken on it
find_object(S, name) ==
    IF \E m \in LiveSlots(S) : S.mailslot[m].name = name
    THEN LET m == CHOOSE x \in LiveSlots(S) : S.mailslot[x].name = name
         IN  [S |-> [S EXCEPT !.mailslot[m].refcount = @ + 1],
              kind |-> "mailslot", obj |-> m]
    ELSE IF name \in OtherNames
    THEN [S |-> S, kind |-> "other", obj |-> NoSlot]
    ELSE [S |-> S, kind |-> "none", obj |-> NoSlot]

\* async_terminate(): deliver a final status to a queued request and take it
\* off its queue
async_terminate(S, m, a, status) ==
    [S EXCEPT !.mailslot[m].read_q = RemoveAt(@, IndexOf(@, a)),
              !.async[a].timeout = FALSE,
              !.async[a].delivered = Append(@, status)]

\* async_terminate_head()
async_terminate_head(S, m, status) ==
    async_terminate(S, m, Head(S.mailslot[m].read_q), status)

\* async_terminate_queue()
RECURSIVE async_terminate_queue(_, _, _)
async_terminate_queue(S, m, status) ==
    IF S.mailslot[m].read_q = <<>> THEN S
    ELSE async_terminate_queue(async_terminate_head(S, m, status), m, status)

\* Mutant of mailslot_destroy: the queued reads are not cancelled.
mailslot_destroy_no_cancel(S, m) ==
    IF ~S.mailslot[m].fd \/ ~S.mailslot[m].write_fd
    THEN [S EXCEPT !.aborted = TRUE]
    ELSE [S EXCEPT !.mailslot[m].fd = FALSE,
                   !.mailslot[m].write_fd = FALSE,
                   !.events[m] = {},
                   !.msgs[m] = <<>>]

\* static void mailslot_destroy( struct object *obj )
mailslot_destroy(S, m) ==
    IF ~S.mailslot[m].fd \/ ~S.mailslot[m].write_fd
    THEN [S EXCEPT !.aborted = TRUE]
    ELSE LET T == async_terminate_queue(S, m, STATUS_CANCELLED)
         IN  [T EXCEPT !.mailslot[m].fd = FALSE,
                       !.mailslot[m].write_fd = FALSE,
                       !.events[m] = {},
                       !.msgs[m] = <<>>]

\* release_object() on a mailslot: the last reference destroys the object,
\* unbinds its name and frees it
release_mailslot(S, m) ==
    IF S.mailslot[m].refcount > 1
    THEN [S EXCEPT !.mailslot[m].refcount = @ - 1]
    ELSE LET T == mailslot_destroy([S EXCEPT !.mailslot[m].refcount = 0], m)
         IN  IF T.aborted THEN T
             ELSE [T EXCEPT !.mailslot[m] = FreeMailslot]

\* create_named_object( sync_namespace, &mailslot_ops, name, len )
create_named_object(S, name) ==
    LET found == find_object(S, name)
        m == Min(Slots \ LiveSlots(S))
    IN  IF found.kind = "mailslot"
        THEN [S |-> set_error(found.S, STATUS_OBJECT_NAME_COLLISION), obj |-> found.obj]
        ELSE IF found.kind = "other"
        THEN [S |-> set_error(S, STATUS_OBJECT_TYPE_MISMATCH), obj |-> NoSlot]
        ELSE IF Slots \ LiveSlots(S) = {}
        THEN [S |-> set_error(S, STATUS_NO_MEMORY), obj |-> NoSlot]
        ELSE [S |-> [set_error(S, STATUS_SUCCESS) EXCEPT
                        !.mailslot[m] = [FreeMailslot EXCEPT !.live = TRUE,
                                                             !.name = name,
                                                             !.refcount = 1]],
              obj |-> m]

\* alloc_handle() on a mailslot: the handle holds a reference
alloc_mailslot_handle(S, m) ==
    [S EXCEPT !.handles = @ \cup {m},
              !.mailslot[m].refcount = @ + 1]

\* ----------------------------------------------------------- create_mailslot
\* Mutant of create_mailslot: a name collision is not looked for, the object
\* create_named_object returns is set up as a new one.
create_mailslot_ignore_collision(S, name, len, max_msgsize, read_timeout, alloc, behind) ==
    IF len <= strlenW(slot) \/ strncmpiW(slot, name \o behind, strlenW(slot)) # 0
    THEN [S |-> set_error(S, STATUS_OBJECT_NAME_INVALID), obj |-> NoSlot]
    ELSE
    LET named == create_named_object(S, name)
        m == named.obj
    IN  IF m = NoSlot THEN [S |-> named.S, obj |-> NoSlot]
        ELSE
        LET T == [named.S EXCEPT !.mailslot[m].fd = FALSE,
                                 !.mailslot[m].write_fd = FALSE,
                                 !.mailslot[m].max_msgsize = max_msgsize,
                                 !.mailslot[m].read_timeout = read_timeout,
                                 !.mailslot[m].writers = <<>>,
                                 !.mailslot[m].read_q = <<>>]
            U == [T EXCEPT !.mailslot[m].fd = (alloc # "fd"),
                           !.mailslot[m].write_fd = (alloc # "write_fd"),
                           !.err = IF alloc \in {"fd", "write_fd"}
                                   THEN STATUS_NO_MEMORY ELSE @]
        IN  IF alloc = "socketpair"
            THEN [S |-> release_mailslot(set_error(T, STATUS_TOO_MANY_OPENED_FILES), m),
                  obj |-> NoSlot]
            ELSE IF U.mailslot[m].fd /\ U.mailslot[m].write_fd
            THEN [S |-> U, obj |-> m]
            ELSE [S |-> release_mailslot(U, m), obj |-> NoSlot]

\* static struct mailslot *create_mailslot( name, len, max_msgsize, read_timeout )
\* `alloc` is the outcome of socketpair() and of the two create_anonymous_fd().
\* len counts bytes and strlenW(slot) WCHARs: a name of 5 to 8 WCHARs passes
\* the length test, and strncmpiW then compares slot with the name and the
\* WCHARs `behind` it in memory.
create_mailslot(S, name, len, max_msgsize, read_timeout, alloc, behind) ==
    IF len <= strlenW(slot) \/ strncmpiW(slot, name \o behind, strlenW(slot)) # 0
    THEN [S |-> set_error(S, STATUS_OBJECT_NAME_INVALID), obj |-> NoSlot]
    ELSE
    LET named == create_named_object(S, name)
        m == named.obj
    IN  IF m = NoSlot THEN [S |-> named.S, obj |-> NoSlot]
        ELSE IF named.S.err = STATUS_OBJECT_NAME_COLLISION
        THEN [S |-> release_mailslot(named.S, m), obj |-> NoSlot]
        ELSE
        LET T == [named.S EXCEPT !.mailslot[m].fd = FALSE,
                                 !.mailslot[m].write_fd = FALSE,
                                 !.mailslot[m].max_msgsize = max_msgsize,
                                 !.mailslot[m].read_timeout = read_timeout,
                                 !.mailslot[m].writers = <<>>,
                                 !.mailslot[m].read_q = <<>>]
            U == [T EXCEPT !.mailslot[m].fd = (alloc # "fd"),
                           !.mailslot[m].write_fd = (alloc # "write_fd"),
                           !.err = IF alloc \in {"fd", "write_fd"}
                                   THEN STATUS_NO_MEMORY ELSE @]
        IN  IF alloc = "socketpair"
            THEN [S |-> release_mailslot(set_error(T, STATUS_TOO_MANY_OPENED_FILES), m),
                  obj |-> NoSlot]
            ELSE IF U.mailslot[m].fd /\ U.mailslot[m].write_fd
            THEN [S |-> U, obj |-> m]
            ELSE [S |-> release_mailslot(U, m), obj |-> NoSlot]

\* DECL_HANDLER(create_mailslot)
CreateMailslotHandler(S, name, max_msgsize, read_timeout, alloc, behind) ==
    LET r == create_mailslot(S, name, get_req_data_size(name),
                             max_msgsize, read_timeout, alloc, behind)
    IN  IF r.obj # NoSlot
        THEN [S |-> release_mailslot(alloc_mailslot_handle(r.S, r.obj), r.obj),
              handle |-> MailslotHandle(r.obj)]
        ELSE [S |-> r.S, handle |-> NoHandle]

\* A create_mailslot request.  Memory is never exhausted: the request is
\* made only while the object it may allocate fits the model's bound.
CreateMailslot(name, max_msgsize, read_timeout, alloc, behind) ==
    /\ ~aborted
    /\ LET r == CreateMailslotHandler(clear_error(Cur), name,
                                      max_msgsize, read_timeout, alloc, behind)
       IN  /\ (r.S.err # STATUS_NO_MEMORY \/ alloc \in {"fd", "write_fd"})
           /\ Commit(r.S)

\* ------------------------------------------------------------ open_mailslot
\* static struct mailslot *open_mailslot( const WCHAR *name, size_t len )
open_mailslot(S, name) ==
    LET found == find_object(S, name)
    IN  IF found.kind = "mailslot"
        THEN [S |-> found.S, obj |-> found.obj]
        ELSE IF found.kind = "other"
        THEN [S |-> set_error(found.S, STATUS_OBJECT_TYPE_MISMATCH), obj |-> NoSlot]
        ELSE [S |-> set_error(found.S, STATUS_OBJECT_NAME_NOT_FOUND), obj |-> NoSlot]

\* Mutants of sharing_conflict: the attached writer's sharing is not looked at;
\* the attached writer's access is not looked at.
sharing_conflict_own_sharing(access, sharing, head) ==
    /\ (GENERIC_WRITE \in access \/ GENERIC_WRITE \in head.access)
    /\ ~(FILE_SHARE_WRITE \in sharing)

sharing_conflict_own_access(access, sharing, head) ==
    /\ GENERIC_WRITE \in access
    /\ ~(FILE_SHARE_WRITE \in sharing /\ FILE_SHARE_WRITE \in head.sharing)

\* The test create_mail_writer makes against the writer at the head of the list
sharing_conflict(access, sharing, head) ==
    /\ (GENERIC_WRITE \in access \/ GENERIC_WRITE \in head.access)
    /\ ~(FILE_SHARE_WRITE \in sharing /\ FILE_SHARE_WRITE \in head.sharing)

\* static struct mail_writer *create_mail_writer( mailslot, access, sharing )
\* ok is FALSE where the function returns NULL.
create_mail_writer(S, m, access, sharing) ==
    IF /\ S.mailslot[m].writers # <<>>
       /\ sharing_conflict(access, sharing, Head(S.mailslot[m].writers))
    THEN [S |-> set_error(S, STATUS_SHARING_VIOLATION), ok |-> FALSE]
    ELSE IF NumWriters(S) >= MaxWriters
    THEN [S |-> set_error(S, STATUS_NO_MEMORY), ok |-> FALSE]
    ELSE [S |-> [S EXCEPT !.mailslot[m].refcount = @ + 1,
                          !.mailslot[m].writers =
                              <<[access |-> access, sharing |-> sharing]>> \o @],
          ok |-> TRUE]

\* Mutant of mail_writer_destroy: the writer's reference on its mailslot is
\* not released.
mail_writer_destroy_no_release(S, m, i) ==
    [S EXCEPT !.mailslot[m].writers = RemoveAt(@, i)]

\* static void mail_writer_destroy( struct object *obj ), on the i-th writer
\* of the list of mailslot m
mail_writer_destroy(S, m, i) ==
    release_mailslot([S EXCEPT !.mailslot[m].writers = RemoveAt(@, i)], m)

\* Mutant of the open_mailslot handler: share-read is not required.
OpenMailslotHandler_no_share_read(S, name, access, sharing) ==
    LET o == open_mailslot(S, name)
    IN  IF o.obj # NoSlot
        THEN LET c == create_mail_writer(o.S, o.obj, access, sharing)
             IN  [S |-> release_mailslot(c.S, o.obj),
                  handle |-> IF c.ok THEN WriterHandle(o.obj) ELSE NoHandle]
        ELSE [S |-> set_error(o.S, STATUS_NO_SUCH_FILE), handle |-> NoHandle]

\* DECL_HANDLER(open_mailslot)
\* The new writer's only reference, once the handler is done, is its handle's.
OpenMailslotHandler(S, name, access, sharing) ==
    IF FILE_SHARE_READ \notin sharing
    THEN [S |-> set_error(S, STATUS_SHARING_VIOLATION), handle |-> NoHandle]
    ELSE
    LET o == open_mailslot(S, name)
    IN  IF o.obj # NoSlot
        THEN LET c == create_mail_writer(o.S, o.obj, access, sharing)
             IN  [S |-> release_mailslot(c.S, o.obj),
                  handle |-> IF c.ok THEN WriterHandle(o.obj) ELSE NoHandle]
        ELSE [S |-> set_error(o.S, STATUS_NO_SUCH_FILE), handle |-> NoHandle]

\* An open_mailslot request
OpenMailslot(name, access, sharing) ==
    /\ ~aborted
    /\ LET r == OpenMailslotHandler(clear_error(Cur), name, access, sharing)
       IN  /\ r.S.err # STATUS_NO_MEMORY
           /\ Commit(r.S)

\* A close_handle request on the handle of mailslot m: the handle's reference
\* is released
CloseMailslotHandle(m) ==
    /\ ~aborted
    /\ m \in handles
    /\ Commit(release_mailslot([clear_error(Cur) EXCEPT
                                    !.handles = @ \ {m}], m))

\* A close_handle request on the handle of the i-th writer of mailslot m: the
\* writer's last reference is released
CloseWriterHandle(m, i) ==
    /\ ~aborted
    /\ i \in 1..Len(mailslot[m].writers)
    /\ Commit(mail_writer_destroy(clear_error(Cur), m, i))

\* ------------------------------------------------- asynchronous reads
\* create_async( current, ptimeout, &mailslot->read_q, apc, user, iosb ):
\* a new request at the tail of the queue; ok is FALSE where it returns NULL
create_async(S, m, has_timeout) ==
    LET free == {a \in AsyncIds : S.async[a].mailslot = NoSlot}
        a == Min(free)
    IN  IF free = {}
        THEN [S |-> set_error(S, STATUS_NO_MEMORY), ok |-> FALSE]
        ELSE [S |-> [S EXCEPT !.async[a] = [mailslot |-> m, timeout |-> has_timeout,
                                            delivered |-> <<>>],
                              !.mailslot[m].read_q = Append(@, a)],
              ok |-> TRUE]

\* poll() of the read end of the socket pair for `evs`
check_fd_events(S, m, evs) ==
    IF S.msgs[m] # <<>> THEN evs \cap {POLLIN} ELSE {}

\* set_fd_events()
set_fd_events(S, m, evs) == [S EXCEPT !.events[m] = evs]

\* static int mailslot_message_count( struct mailslot *mailslot )
mailslot_message_count(S, m) ==
    IF check_fd_events(S, m, {POLLIN}) # {} THEN 1 ELSE 0

\* static int mailslot_get_poll_events( struct fd *fd )
mailslot_get_poll_events(S, m) ==
    IF S.mailslot[m].read_q # <<>> THEN {POLLIN} ELSE {}

\* Mutant of mailslot_poll_event: the head of the queue is alerted and left
\* on the queue.
mailslot_poll_event_keep_head(S, m, event) ==
    LET q == S.mailslot[m].read_q
        T == IF q # <<>> /\ POLLIN \in event
             THEN [S EXCEPT !.async[Head(q)].delivered = Append(@, STATUS_ALERTED)]
             ELSE S
    IN  set_fd_events(T, m, mailslot_get_poll_events(T, m))

\* Mutants of mailslot_poll_event: every queued request is completed; the
\* request at the tail of the queue is completed.
mailslot_poll_event_all(S, m, event) ==
    LET T == IF S.mailslot[m].read_q # <<>> /\ POLLIN \in event
             THEN async_terminate_queue(S, m, STATUS_ALERTED)
             ELSE S
    IN  set_fd_events(T, m, mailslot_get_poll_events(T, m))

mailslot_poll_event_tail(S, m, event) ==
    LET q == S.mailslot[m].read_q
        T == IF q # <<>> /\ POLLIN \in event
             THEN async_terminate(S, m, q[Len(q)], STATUS_ALERTED)
             ELSE S
    IN  set_fd_events(T, m, mailslot_get_poll_events(T, m))

\* static void mailslot_poll_event( struct fd *fd, int event )
mailslot_poll_event(S, m, event) ==
    LET T == IF S.mailslot[m].read_q # <<>> /\ POLLIN \in event
             THEN async_terminate_head(S, m, STATUS_ALERTED)
             ELSE S
    IN  set_fd_events(T, m, mailslot_get_poll_events(T, m))

\* Mutants of mailslot_queue_async: every request is given a deadline; the new
\* request is never served at once.
mailslot_queue_async_always_timeout(S, m, type, drained) ==
    IF type # ASYNC_TYPE_READ
    THEN set_error(S, STATUS_INVALID_PARAMETER)
    ELSE IF S.mailslot[m].writers = <<>> \/ mailslot_message_count(S, m) = 0
    THEN set_error(S, STATUS_IO_TIMEOUT)
    ELSE
    LET c == create_async(S, m, TRUE)
        T == IF drained THEN [c.S EXCEPT !.msgs[m] = <<>>] ELSE c.S
        evs == check_fd_events(T, m, mailslot_get_poll_events(T, m))
    IN  IF ~c.ok THEN c.S
        ELSE IF evs # {} THEN mailslot_poll_event(T, m, evs)
        ELSE set_fd_events(T, m, mailslot_get_poll_events(T, m))

mailslot_queue_async_no_immediate(S, m, type, drained) ==
    IF type # ASYNC_TYPE_READ
    THEN set_error(S, STATUS_INVALID_PARAMETER)
    ELSE IF S.mailslot[m].writers = <<>> \/ mailslot_message_count(S, m) = 0
    THEN set_error(S, STATUS_IO_TIMEOUT)
    ELSE
    LET c == create_async(S, m, S.mailslot[m].read_timeout # MAILSLOT_WAIT_FOREVER)
        T == IF drained THEN [c.S EXCEPT !.msgs[m] = <<>>] ELSE c.S
    IN  IF ~c.ok THEN c.S
        ELSE set_fd_events(T, m, mailslot_get_poll_events(T, m))

\* Mutants of mailslot_queue_async: the writers list is not looked at; the
\* socket is not polled for a datagram.
mailslot_queue_async_no_writers_test(S, m, type, drained) ==
    IF type # ASYNC_TYPE_READ
    THEN set_error(S, STATUS_INVALID_PARAMETER)
    ELSE IF mailslot_message_count(S, m) = 0
    THEN set_error(S, STATUS_IO_TIMEOUT)
    ELSE
    LET c == create_async(S, m, S.mailslot[m].read_timeout # MAILSLOT_WAIT_FOREVER)
        T == IF drained THEN [c.S EXCEPT !.msgs[m] = <<>>] ELSE c.S
        evs == check_fd_events(T, m, mailslot_get_poll_events(T, m))
    IN  IF ~c.ok THEN c.S
        ELSE IF evs # {} THEN mailslot_poll_event(T, m, evs)
        ELSE set_fd_events(T, m, mailslot_get_poll_events(T, m))

\* static void mailslot_queue_async( fd, apc, user, iosb, type, count )
\* `drained` says that the owner of the mailslot read the buffered datagrams
\* after the poll of mailslot_message_count and before that of check_fd_events.
mailslot_queue_async(S, m, type, drained) ==
    IF type # ASYNC_TYPE_READ
    THEN set_error(S, STATUS_INVALID_PARAMETER)
    ELSE IF S.mailslot[m].writers = <<>> \/ mailslot_message_count(S, m) = 0
    THEN set_error(S, STATUS_IO_TIMEOUT)
    ELSE
    LET c == create_async(S, m, S.mailslot[m].read_timeout # MAILSLOT_WAIT_FOREVER)
        T == IF drained THEN [c.S EXCEPT !.msgs[m] = <<>>] ELSE c.S
        evs == check_fd_events(T, m, mailslot_get_poll_events(T, m))
    IN  IF ~c.ok THEN c.S
        ELSE IF evs # {} THEN mailslot_poll_event(T, m, evs)
        ELSE set_fd_events(T, m, mailslot_get_poll_events(T, m))

\* Mutant of mailslot_cancel_async: the queue of the next mailslot is
\* cancelled as well.
mailslot_cancel_async_other(S, m) ==
    async_terminate_queue(async_terminate_queue(S, m, STATUS_CANCELLED),
                          (m % MaxSlots) + 1, STATUS_CANCELLED)

\* static void mailslot_cancel_async( struct fd *fd )
mailslot_cancel_async(S, m) == async_terminate_queue(S, m, STATUS_CANCELLED)

\* A register_async request on the handle of mailslot m
QueueAsync(m, type, drained) ==
    /\ ~aborted
    /\ m \in handles
    /\ LET T == mailslot_queue_async(clear_error(Cur), m, type, drained)
       IN  /\ T.err # STATUS_NO_MEMORY
           /\ Commit(T)

\* A cancel_async request on the handle of mailslot m
CancelAsync(m) ==
    /\ ~aborted
    /\ m \in handles
    /\ Commit(mailslot_cancel_async(clear_error(Cur), m))

\* The main loop's poll() reports `event` on the read fd of mailslot m.
\* POLLIN is reported only while it is armed and a datagram is buffered.
PollEvent(m, event) ==
    /\ ~aborted
    /\ mailslot[m].live /\ mailslot[m].fd
    /\ POLLIN \in event => (POLLIN \in events[m] /\ msgs[m] # <<>>)
    /\ Commit(mailslot_poll_event(Cur, m, event))

\* The deadline of queued request a expires (the timeout callback of async.c)
AsyncTimeout(a) ==
    /\ ~aborted
    /\ async[a].timeout
    /\ \E m \in Slots :
          /\ a \in SeqRange(mailslot[m].read_q)
          /\ Commit(async_terminate(Cur, m, a, STATUS_TIMEOUT))

\* A process holding a writer handle with write access sends a datagram
ClientWrite(m, len) ==
    /\ ~aborted
    /\ \E i \in 1..Len(mailslot[m].writers) : GENERIC_WRITE \in mailslot[m].writers[i].access
    /\ Len(msgs[m]) < MaxMsgs
    /\ msgs' = [msgs EXCEPT ![m] = Append(@, len)]
    /\ UNCHANGED <<mailslot, async, events, handles, err, aborted>>

\* The process holding the mailslot's handle receives the oldest datagram
ClientRead(m) ==
    /\ ~aborted
    /\ m \in handles
    /\ msgs[m] # <<>>
    /\ msgs' = [msgs EXCEPT ![m] = Tail(@)]
    /\ UNCHANGED <<mailslot, async, events, handles, err, aborted>>

\* ------------------------------------------------------- set_mailslot_info
\* get_mailslot_obj(): the mailslot a handle names, with a reference taken
get_mailslot_obj(S, handle) ==
    IF \E m \in S.handles : handle = MailslotHandle(m)
    THEN LET m == CHOOSE x \in S.handles : handle = MailslotHandle(x)
         IN  [S |-> [S EXCEPT !.mailslot[m].refcount = @ + 1], obj |-> m]
    ELSE IF \E m \in Slots : handle = WriterHandle(m) /\ S.mailslot[m].writers # <<>>
    THEN [S |-> set_error(S, STATUS_OBJECT_TYPE_MISMATCH), obj |-> NoSlot]
    ELSE [S |-> set_error(S, STATUS_INVALID_HANDLE), obj |-> NoSlot]

\* Mutant of recv_peek: the size of the newest datagram.
recv_peek_newest(S, m) ==
    IF S.msgs[m] # <<>> THEN S.msgs[m][Len(S.msgs[m])] ELSE -1

\* recv( fd, NULL, 0, MSG_PEEK | MSG_TRUNC ): the size of the oldest datagram,
\* which stays buffered; -1 when there is none
recv_peek(S, m) == IF S.msgs[m] # <<>> THEN Head(S.msgs[m]) ELSE -1

\* What the processes holding handles do to the socket pair of a mailslot
\* while a handler runs is a sequence of steps, of any length: the owner
\* receives the oldest datagram, or a writer sends one of `len` bytes.
ReadStep       == [op |-> "read", len |-> 0]
WriteStep(l)   == [op |-> "write", len |-> l]
TransportSteps == {ReadStep} \cup {WriteStep(l) : l \in MsgLens}

\* One step: a receive on an empty socket finds nothing
transport_step(S, m, st) ==
    IF st.op = "read"
    THEN [S EXCEPT !.msgs[m] = IF @ = <<>> THEN @ ELSE Tail(@)]
    ELSE [S EXCEPT !.msgs[m] = Append(@, st.len)]

\* The steps of a sequence, one after the other
RECURSIVE transport_steps(_, _, _)
transport_steps(S, m, sts) ==
    IF sts = <<>> THEN S
    ELSE transport_steps(transport_step(S, m, Head(sts)), m, Tail(sts))

\* Every content the socket pair of mailslot m can have after a sequence of
\* steps is what is left of the buffered datagrams after k receives, followed
\* by datagrams sent meanwhile; these sequences, k receives and then the
\* sends, give each of them.
RECURSIVE WriteSeqs(_)
WriteSeqs(n) ==
    IF n = 0 THEN {<<>>}
    ELSE LET shorter == WriteSeqs(n - 1)
         IN  shorter \cup {Append(w, WriteStep(l)) : w \in shorter, l \in MsgLens}

EnabledSteps(S, m) ==
    LET old == S.msgs[m]
        canWrite == \E i \in 1..Len(S.mailslot[m].writers) :
                        GENERIC_WRITE \in S.mailslot[m].writers[i].access
        sends(k) == {w \in WriteSeqs(MaxMsgs) :
                        /\ Len(old) - k + Len(w) <= MaxMsgs
                        /\ w # <<>> => canWrite}
    IN  UNION {{[i \in 1..k |-> ReadStep] \o w : w \in sends(k)} : k \in 0..Len(old)}

\* Mutant of the set_mailslot_info handler: read_timeout is set whatever the
\* flags.
SetMailslotInfoHandler_always_set(S, handle, flags, read_timeout, between) ==
    LET g == get_mailslot_obj(S, handle)
        m == g.obj
        T == [g.S EXCEPT !.mailslot[m].read_timeout = read_timeout]
        count == mailslot_message_count(T, m)
        U == transport_steps(T, m, between)
        r == recv_peek(U, m)
    IN  IF m # NoSlot
        THEN [S |-> release_mailslot(U, m),
              reply |-> [max_msgsize |-> T.mailslot[m].max_msgsize,
                         read_timeout |-> T.mailslot[m].read_timeout,
                         msg_count |-> count,
                         next_msgsize |-> IF r < 0 THEN MAILSLOT_NO_MESSAGE ELSE r]]
        ELSE [S |-> g.S, reply |-> NoReply]

\* DECL_HANDLER(set_mailslot_info)
\* msg_count comes from the poll() of mailslot_message_count and next_msgsize
\* from the recv() after it; `between` is the sequence of steps the processes
\* holding handles make on the socket pair between the two system calls.
SetMailslotInfoHandler(S, handle, flags, read_timeout, between) ==
    LET g == get_mailslot_obj(S, handle)
        m == g.obj
        T == IF MAILSLOT_SET_READ_TIMEOUT \in flags
             THEN [g.S EXCEPT !.mailslot[m].read_timeout = read_timeout]
             ELSE g.S
        count == mailslot_message_count(T, m)
        U == transport_steps(T, m, between)
        r == recv_peek(U, m)
    IN  IF m # NoSlot
        THEN [S |-> release_mailslot(U, m),
              reply |-> [max_msgsize |-> T.mailslot[m].max_msgsize,
                         read_timeout |-> T.mailslot[m].read_timeout,
                         msg_count |-> count,
                         next_msgsize |-> IF r < 0 THEN MAILSLOT_NO_MESSAGE ELSE r]]
        ELSE [S |-> g.S, reply |-> NoReply]

\* The sequences of steps the socket pair of the mailslot a handle names
\* can take
HandleSteps(S, handle) ==
    IF \E m \in S.handles : handle = MailslotHandle(m)
    THEN EnabledSteps(S, handle[2])
    ELSE {<<>>}

\* A set_mailslot_info request
SetMailslotInfo(handle, flags, read_timeout, between) ==
    /\ ~aborted
    /\ between \in HandleSteps(Cur, handle)
    /\ Commit(SetMailslotInfoHandler(clear_error(Cur),
                                     handle, flags, read_timeout, between).S)

Handles == {NoHandle} \cup {MailslotHandle(m) : m \in Slots}
                      \cup {WriterHandle(m) : m \in Slots}
InfoFlags == {{}, {MAILSLOT_SET_READ_TIMEOUT}}

\* ------------------------------------------------------- specifications
\* Every request and event, with every input.
Next ==
    \/ \E name \in Names, sz \in MsgSizes, to \in ReadTimeouts,
          alloc \in AllocOutcomes, behind \in Behinds :
          CreateMailslot(name, sz, to, alloc, behind)
    \/ \E name \in Names, access \in AccessMasks, sharing \in SharingMasks :
          OpenMailslot(name, access, sharing)
    \/ \E m \in Slots : CloseMailslotHandle(m)
    \/ \E m \in Slots, i \in 1..MaxWriters : CloseWriterHandle(m, i)
    \/ \E m \in Slots, type \in AsyncTypes, drained \in BOOLEAN : QueueAsync(m, type, drained)
    \/ \E m \in Slots : CancelAsync(m)
    \/ \E m \in Slots, event \in PollEvents : PollEvent(m, event)
    \/ \E a \in AsyncIds : AsyncTimeout(a)
    \/ \E m \in Slots, len \in MsgLens : ClientWrite(m, len)
    \/ \E m \in Slots : ClientRead(m)
    \/ \E h \in Handles, flags \in InfoFlags, to \in ReadTimeouts :
          \E between \in HandleSteps(Cur, h) : SetMailslotInfo(h, flags, to, between)

Spec == Init /\ [][Next]_vars

\* The requests that create, open and close mailslots and writers, with every
\* access mask and sharing mask, and every name whose validity does not depend
\* on the memory behind it.
NextOpen ==
    \/ \E name \in Names \ {NameMid5, NameMid8}, alloc \in AllocOutcomes :
          CreateMailslot(name, 100, MAILSLOT_WAIT_FOREVER, alloc, <<"x">>)
    \/ \E name \in {NameA, NameB, NameOther}, access \in AccessMasks, sharing \in SharingMasks :
          OpenMailslot(name, access, sharing)
    \/ \E m \in Slots : CloseMailslotHandle(m)
    \/ \E m \in Slots, i \in 1..MaxWriters : CloseWriterHandle(m, i)

SpecOpen == Init /\ [][NextOpen]_vars

\* The create_mailslot requests with every name, every content of the memory
\* behind the name and every outcome of the transport allocation, and the
\* opens and closes that follow them.
NextName ==
    \/ \E name \in Names, alloc \in AllocOutcomes, behind \in Behinds :
          CreateMailslot(name, 100, MAILSLOT_WAIT_FOREVER, alloc, behind)
    \/ \E name \in {NameA, NameMid5, NameMid8} :
          OpenMailslot(name, {GENERIC_WRITE}, {FILE_SHARE_READ, FILE_SHARE_WRITE})
    \/ \E m \in Slots : CloseMailslotHandle(m)
    \/ \E m \in Slots, i \in 1..MaxWriters : CloseWriterHandle(m, i)

SpecName == Init /\ [][NextName]_vars

\* Asynchronous reads on one name, whose writers all share writing.
NextAsync ==
    \/ \E to \in ReadTimeouts : CreateMailslot(NameA, 100, to, "ok", <<"x">>)
    \/ OpenMailslot(NameA, {GENERIC_WRITE}, {FILE_SHARE_READ, FILE_SHARE_WRITE})
    \/ \E m \in Slots : CloseMailslotHandle(m)
    \/ \E m \in Slots, i \in 1..MaxWriters : CloseWriterHandle(m, i)
    \/ \E m \in Slots, type \in AsyncTypes, drained \in BOOLEAN : QueueAsync(m, type, drained)
    \/ \E m \in Slots : CancelAsync(m)
    \/ \E m \in Slots, event \in PollEvents : PollEvent(m, event)
    \/ \E a \in AsyncIds : AsyncTimeout(a)
    \/ \E m \in Slots : ClientWrite(m, 3)
    \/ \E m \in Slots : ClientRead(m)

SpecAsync == Init /\ [][NextAsync]_vars

\* Asynchronous reads on two mailslots that stay open, each read left queued
\* by a read of the socket that falls inside the request.
NextTwo ==
    \/ \E name \in {NameA, NameB} : CreateMailslot(name, 100, MAILSLOT_WAIT_FOREVER, "ok", <<"x">>)
    \/ \E name \in {NameA, NameB} :
          OpenMailslot(name, {GENERIC_WRITE}, {FILE_SHARE_READ, FILE_SHARE_WRITE})
    \/ \E m \in Slots : QueueAsync(m, ASYNC_TYPE_READ, TRUE)
    \/ \E m \in Slots : CancelAsync(m)
    \/ \E m \in Slots : ClientWrite(m, 3)

SpecTwo == Init /\ [][NextTwo]_vars

\* One mailslot with one writer, its datagrams of either size, and the
\* set_mailslot_info requests made on it with every handle, flag and timeout
\* and every sequence of socket steps inside the request.
NextInfo ==
    \/ \E to \in ReadTimeouts : CreateMailslot(NameA, 100, to, "ok", <<"x">>)
    \/ OpenMailslot(NameA, {GENERIC_WRITE}, {FILE_SHARE_READ})
    \/ \E m \in Slots : QueueAsync(m, ASYNC_TYPE_READ, TRUE)
    \/ \E a \in AsyncIds : AsyncTimeout(a)
    \/ \E m \in Slots, len \in MsgLens : ClientWrite(m, len)
    \/ \E m \in Slots : ClientRead(m)
    \/ \E h \in Handles, flags \in InfoFlags, to \in ReadTimeouts :
          \E between \in HandleSteps(Cur, h) : SetMailslotInfo(h, flags, to, between)

SpecInfo == Init /\ [][NextInfo]_vars

\* ------------------------------------------------------------------ claims
\* The claims about a request are stated of its handler, applied to every
\* reachable state and every input: what it reports and the memory it leaves.

AllAccess    == SUBSET {GENERIC_READ, GENERIC_WRITE}
WithShareRead    == {s \in SharingMasks : FILE_SHARE_READ \in s}
WithoutShareRead == {s \in SharingMasks : FILE_SHARE_READ \notin s}

BoundToMailslot(name) == \E m \in Slots : mailslot[m].live /\ mailslot[m].name = name
Unbound(name)         == ~BoundToMailslot(name) /\ name \notin OtherNames
SlotOf(name)          == CHOOSE m \in Slots : mailslot[m].live /\ mailslot[m].name = name

\* C1: an open with share-read on a mailslot with writers is rejected with a
\* sharing violation iff (the requested or the head writer's access has
\* GENERIC_WRITE) and not (both sharing masks have FILE_SHARE_WRITE); else the
\* new writer is added.  A second writer asking write access is admitted iff
\* both sharing masks have share-write.  A rejection leaves the writers and
\* the reference count as they were and returns no handle.
C1_SharingArbitration ==
    ~aborted =>
    \A m \in Slots, access \in AllAccess, sharing \in WithShareRead :
        LET ws  == mailslot[m].writers
            r   == OpenMailslotHandler(clear_error(Cur), mailslot[m].name, access, sharing)
            rep == ws[1]
            reject == /\ (GENERIC_WRITE \in access \/ GENERIC_WRITE \in rep.access)
                      /\ ~(FILE_SHARE_WRITE \in sharing /\ FILE_SHARE_WRITE \in rep.sharing)
        IN  (mailslot[m].live /\ ws # <<>> /\ NumWriters(Cur) < MaxWriters) =>
            /\ reject =>
                 /\ r.S.err = STATUS_SHARING_VIOLATION
                 /\ r.handle = NoHandle
                 /\ r.S.mailslot = mailslot
            /\ ~reject =>
                 /\ r.S.err = STATUS_SUCCESS
                 /\ r.handle = WriterHandle(m)
                 /\ r.S.mailslot[m].writers =
                        <<[access |-> access, sharing |-> sharing]>> \o ws
                 /\ r.S.mailslot[m].refcount = mailslot[m].refcount + 1
            /\ (Len(ws) = 1 /\ GENERIC_WRITE \in access) =>
                 ((r.handle # NoHandle) <=>
                  (FILE_SHARE_WRITE \in ws[1].sharing /\ FILE_SHARE_WRITE \in sharing))

\* A second writer with write access was admitted, and the last open was rejected.
C1_Witness ==
    /\ err = STATUS_SHARING_VIOLATION
    /\ \E m \in Slots : /\ Len(mailslot[m].writers) >= 2
                        /\ GENERIC_WRITE \in mailslot[m].writers[1].access

\* C2: the attached writers are mutually compatible: when a mailslot has more
\* than one writer and one of them has GENERIC_WRITE access, every one of
\* them shares writing.
C2_WritersCompatible ==
    \A m \in Slots :
        LET ws == mailslot[m].writers
        IN  (Len(ws) > 1 /\ \E i \in 1..Len(ws) : GENERIC_WRITE \in ws[i].access)
            => \A i \in 1..Len(ws) : FILE_SHARE_WRITE \in ws[i].sharing

\* C3: an open without share-read fails with a sharing violation whatever the
\* name and the access: no handle, no writer, no object touched.
C3_ShareReadRequired ==
    ~aborted =>
    \A name \in Names, access \in AllAccess, sharing \in WithoutShareRead :
        LET r == OpenMailslotHandler(clear_error(Cur), name, access, sharing)
        IN  /\ r.S.err = STATUS_SHARING_VIOLATION
            /\ r.handle = NoHandle
            /\ r.S = set_error(Cur, STATUS_SHARING_VIOLATION)

\* An open was rejected although no mailslot has a writer.
C3_Witness ==
    /\ err = STATUS_SHARING_VIOLATION
    /\ LiveSlots(Cur) # {}
    /\ NumWriters(Cur) = 0

\* The three opens of the scenario, made one after the other with sharing mask
\* `sharing` on the name of mailslot m
Scenario(m, sharing) ==
    LET name == mailslot[m].name
        r1 == OpenMailslotHandler(clear_error(Cur), name, {GENERIC_WRITE}, sharing)
        r2 == OpenMailslotHandler(clear_error(r1.S), name, {GENERIC_WRITE}, sharing)
        r3 == OpenMailslotHandler(clear_error(r2.S), name, {GENERIC_READ}, sharing)
    IN  <<r1, r2, r3>>

Fresh(m) ==
    /\ mailslot[m].live /\ m \in handles
    /\ mailslot[m].writers = <<>> /\ mailslot[m].read_q = <<>>
    /\ NumWriters(Cur) + 2 <= MaxWriters

\* C4 as claimed: on a fresh mailslot the open (GENERIC_WRITE, 0) succeeds and
\* leaves one writer, a second (GENERIC_WRITE, 0) is a sharing violation, and
\* a following (GENERIC_READ, 0) succeeds.
C4_Original ==
    ~aborted =>
    \A m \in Slots : Fresh(m) =>
        LET s == Scenario(m, {})
        IN  /\ s[1].S.err = STATUS_SUCCESS
            /\ Len(s[1].S.mailslot[m].writers) = 1
            /\ s[2].S.err = STATUS_SHARING_VIOLATION
            /\ s[3].S.err = STATUS_SUCCESS
            /\ s[3].handle # NoHandle

\* C4 amended: with sharing 0 each of the three opens is a sharing violation
\* and no writer is attached; with sharing FILE_SHARE_READ the first open
\* succeeds and leaves one writer, and both following opens, the read-only one
\* too, are sharing violations that leave that one writer.
C4_Scenario ==
    ~aborted =>
    \A m \in Slots : Fresh(m) =>
        LET s0 == Scenario(m, {})
            s  == Scenario(m, {FILE_SHARE_READ})
        IN  /\ \A k \in 1..3 : /\ s0[k].S.err = STATUS_SHARING_VIOLATION
                               /\ s0[k].handle = NoHandle
                               /\ s0[k].S.mailslot = mailslot
            /\ s[1].S.err = STATUS_SUCCESS
            /\ s[1].handle = WriterHandle(m)
            /\ s[1].S.mailslot[m].writers =
                   <<[access |-> {GENERIC_WRITE}, sharing |-> {FILE_SHARE_READ}]>>
            /\ \A k \in 2..3 : /\ s[k].S.err = STATUS_SHARING_VIOLATION
                               /\ s[k].handle = NoHandle
                               /\ s[k].S.mailslot = s[1].S.mailslot

\* One writer (GENERIC_WRITE, FILE_SHARE_READ) is attached and the open that
\* followed was rejected.
C4_Witness ==
    /\ err = STATUS_SHARING_VIOLATION
    /\ \E m \in Slots :
          mailslot[m].writers =
              <<[access |-> {GENERIC_WRITE}, sharing |-> {FILE_SHARE_READ}]>>

\* C5: creating a mailslot on a name bound to a live mailslot fails with a
\* name collision and no handle, and leaves every object as it was; no two
\* live mailslots have the same name.
C5_NameCollision ==
    /\ \A m1, m2 \in Slots :
          (mailslot[m1].live /\ mailslot[m2].live
             /\ mailslot[m1].name = mailslot[m2].name) => m1 = m2
    /\ ~aborted =>
       \A m \in Slots, sz \in MsgSizes, to \in ReadTimeouts, alloc \in AllocOutcomes :
          mailslot[m].live =>
          LET r == CreateMailslotHandler(clear_error(Cur), mailslot[m].name,
                                         sz, to, alloc, <<"x">>)
          IN  /\ r.S.err = STATUS_OBJECT_NAME_COLLISION
              /\ r.handle = NoHandle
              /\ r.S = set_error(Cur, STATUS_OBJECT_NAME_COLLISION)

\* A create collided with a mailslot that has a writer and a queued read.
C5_Witness ==
    /\ err = STATUS_OBJECT_NAME_COLLISION
    /\ \E m \in Slots : /\ mailslot[m].live
                        /\ mailslot[m].writers # <<>>
                        /\ mailslot[m].read_q # <<>>

\* C6: an open with share-read reports not-found on an unbound name and
\* type-mismatch on a name bound to another kind of object, and succeeds on a
\* live mailslot without writers.  Violated: the request handler replaces the
\* error the lookup set by STATUS_NO_SUCH_FILE.
C6_OpenErrors ==
    ~aborted =>
    \A name \in Names, access \in AllAccess, sharing \in WithShareRead :
        LET r == OpenMailslotHandler(clear_error(Cur), name, access, sharing)
        IN  /\ Unbound(name) => r.S.err = STATUS_OBJECT_NAME_NOT_FOUND
            /\ name \in OtherNames => r.S.err = STATUS_OBJECT_TYPE_MISMATCH
            /\ (BoundToMailslot(name) /\ mailslot[SlotOf(name)].writers = <<>>
                  /\ NumWriters(Cur) < MaxWriters)
               => (r.S.err = STATUS_SUCCESS /\ r.handle = WriterHandle(SlotOf(name)))

FreeAsyncIds == {a \in AsyncIds : async[a].mailslot = NoSlot}
Queued(a)    == \E m \in Slots : a \in SeqRange(mailslot[m].read_q)
Alerted(a)   == STATUS_ALERTED \in SeqRange(async[a].delivered)

\* C7: a read queued on a mailslot without writers fails at once with
\* STATUS_IO_TIMEOUT, and a request of another type with
\* STATUS_INVALID_PARAMETER; neither is queued, and the queue, the armed poll
\* events and everything else stay as they were, a datagram buffered or not.
C7_NoWriters ==
    ~aborted =>
    \A m \in handles, type \in AsyncTypes, drained \in BOOLEAN :
        LET T == mailslot_queue_async(clear_error(Cur), m, type, drained)
        IN  /\ (type = ASYNC_TYPE_READ /\ mailslot[m].writers = <<>>)
                 => T = set_error(Cur, STATUS_IO_TIMEOUT)
            /\ type # ASYNC_TYPE_READ
                 => T = set_error(Cur, STATUS_INVALID_PARAMETER)

\* A read was refused on a mailslot without writers that has a datagram buffered.
C7_Witness ==
    /\ err = STATUS_IO_TIMEOUT
    /\ \E m \in handles : mailslot[m].writers = <<>> /\ msgs[m] # <<>>

\* C8: a read queued on a mailslot with a writer is accepted and queued, a
\* datagram buffered or not.  Violated: with no datagram buffered the read
\* is refused with STATUS_IO_TIMEOUT and not queued.
C8_Accepted ==
    ~aborted =>
    \A m \in handles, drained \in BOOLEAN :
        (mailslot[m].writers # <<>> /\ FreeAsyncIds # {}) =>
        LET T == mailslot_queue_async(clear_error(Cur), m, ASYNC_TYPE_READ, drained)
        IN  /\ T.err = STATUS_SUCCESS
            /\ T.async[Min(FreeAsyncIds)].mailslot = m

\* C9: a poll event with POLLIN on a mailslot with N >= 1 queued reads
\* completes the head of the queue with STATUS_ALERTED and takes it off; the
\* other N-1 stay queued in their order.  An event without POLLIN, or on an
\* empty queue, completes nothing.
C9_SingleCompletion ==
    ~aborted =>
    \A m \in Slots, event \in SUBSET {POLLIN, POLLERR} :
        (mailslot[m].live /\ mailslot[m].fd) =>
        LET q == mailslot[m].read_q
            T == mailslot_poll_event(Cur, m, event)
        IN  /\ (POLLIN \in event /\ q # <<>>) =>
                 /\ T.mailslot[m].read_q = Tail(q)
                 /\ T.async[Head(q)].delivered =
                        Append(async[Head(q)].delivered, STATUS_ALERTED)
                 /\ \A a \in AsyncIds \ {Head(q)} : T.async[a] = async[a]
            /\ (POLLIN \notin event \/ q = <<>>) =>
                 /\ T.async = async
                 /\ T.mailslot = mailslot

\* One read was alerted and two that were accepted after it are still queued.
C9_Witness ==
    \E m \in Slots, a \in AsyncIds :
        /\ async[a].delivered = <<STATUS_ALERTED>>
        /\ async[a].mailslot = m
        /\ Len(mailslot[m].read_q) >= 2
        /\ \A i \in 1..Len(mailslot[m].read_q) : mailslot[m].read_q[i] > a

\* C10: reads are alerted in the order they were accepted: a queue holds its
\* reads in that order (ids are given in acceptance order), and no read is
\* alerted while one accepted before it on the same mailslot is still queued.
C10_FifoOrder ==
    /\ \A m \in Slots : \A i, j \in 1..Len(mailslot[m].read_q) :
          i < j => mailslot[m].read_q[i] < mailslot[m].read_q[j]
    /\ \A a, b \in AsyncIds :
          (a < b /\ async[b].mailslot # NoSlot
             /\ async[a].mailslot = async[b].mailslot /\ Alerted(b))
          => ~Queued(a)

\* Of three reads on one mailslot the first was alerted, the second timed out
\* and the third was alerted.
C10_Witness ==
    \E a, b, c \in AsyncIds :
        /\ a < b /\ b < c
        /\ async[a].mailslot = async[c].mailslot
        /\ async[b].mailslot = async[c].mailslot
        /\ async[a].delivered = <<STATUS_ALERTED>>
        /\ async[b].delivered = <<STATUS_TIMEOUT>>
        /\ async[c].delivered = <<STATUS_ALERTED>>

Statuses(a)  == SeqRange(async[a].delivered)
Accepted(a)  == async[a].mailslot # NoSlot

\* C11: an accepted read gets at most one final status, one of alerted,
\* timeout and cancelled; while it has none it is on its queue, once, and
\* once it has one it is on no queue.  No event completes a completed read
\* again: a poll event, a cancel or the destruction of its mailslot leaves it
\* as it is, also a poll event that follows a deadline expiry and a
\* destruction that follows a cancel.
C11_ExactlyOnce ==
    /\ \A a \in AsyncIds :
          /\ Len(async[a].delivered) <= 1
          /\ Statuses(a) \subseteq {STATUS_ALERTED, STATUS_TIMEOUT, STATUS_CANCELLED}
          /\ async[a].delivered # <<>> => ~Queued(a)
          /\ (Accepted(a) /\ async[a].delivered = <<>>) =>
                Cardinality({i \in 1..Len(mailslot[async[a].mailslot].read_q) :
                                 mailslot[async[a].mailslot].read_q[i] = a}) = 1
    /\ ~aborted =>
       \A m \in Slots : (mailslot[m].live /\ mailslot[m].fd) =>
          LET q    == mailslot[m].read_q
              done == {a \in AsyncIds : async[a].delivered # <<>>}
              after == {mailslot_poll_event(Cur, m, {POLLIN}),
                        mailslot_cancel_async(Cur, m),
                        mailslot_destroy(Cur, m),
                        mailslot_destroy(mailslot_cancel_async(Cur, m), m)}
          IN  /\ \A T \in after : \A a \in done : T.async[a] = async[a]
              /\ \A a \in SeqRange(q) :
                    /\ mailslot_destroy(mailslot_cancel_async(Cur, m), m).async[a].delivered
                           = <<STATUS_CANCELLED>>
                    /\ mailslot_poll_event(async_terminate(Cur, m, a, STATUS_TIMEOUT),
                                           m, {POLLIN}).async[a].delivered
                           = <<STATUS_TIMEOUT>>

\* Three reads were completed, one by each path: alerted, timed out, cancelled.
C11_Witness ==
    \E a, b, c \in AsyncIds :
        /\ async[a].delivered = <<STATUS_ALERTED>>
        /\ async[b].delivered = <<STATUS_TIMEOUT>>
        /\ async[c].delivered = <<STATUS_CANCELLED>>

\* C12: a cancel on a mailslot completes every read on its queue with
\* STATUS_CANCELLED and leaves the queue empty; it completes no read of
\* another mailslot and changes neither the writers, nor read_timeout, nor
\* max_msgsize.  On an empty queue it changes nothing.
C12_CancelAsync ==
    ~aborted =>
    \A m \in handles :
        LET q == mailslot[m].read_q
            T == mailslot_cancel_async(Cur, m)
        IN  /\ T.mailslot[m] = [mailslot[m] EXCEPT !.read_q = <<>>]
            /\ \A a \in SeqRange(q) : T.async[a].delivered = <<STATUS_CANCELLED>>
            /\ \A a \in AsyncIds \ SeqRange(q) : T.async[a] = async[a]
            /\ \A n \in Slots \ {m} : T.mailslot[n] = mailslot[n]
            /\ q = <<>> => T = Cur

\* The two reads of one mailslot were cancelled while the read of another
\* mailslot stays queued.
C12_Witness ==
    \E m, n \in handles, a, b, c \in AsyncIds :
        /\ m # n /\ a # b
        /\ async[a].mailslot = m /\ async[a].delivered = <<STATUS_CANCELLED>>
        /\ async[b].mailslot = m /\ async[b].delivered = <<STATUS_CANCELLED>>
        /\ mailslot[m].read_q = <<>>
        /\ mailslot[n].read_q = <<c>>

\* The release of the last reference on mailslot m: the close of its handle,
\* or the destruction of its last writer once the handle is closed
LastRelease(m) ==
    IF m \in handles
    THEN release_mailslot([Cur EXCEPT !.handles = @ \ {m}], m)
    ELSE mail_writer_destroy(Cur, m, 1)

\* C13: the destruction of a mailslot with K >= 0 queued reads completes all
\* K with STATUS_CANCELLED, while both ends of the socket pair are still
\* there, and then releases both ends; after the release of the last
\* reference no read accepted on the mailslot is without a status, the name
\* is bound to no mailslot and a create_mailslot on the name succeeds.
C13_Destroy ==
    ~aborted =>
    \A m \in Slots : (mailslot[m].live /\ mailslot[m].refcount = 1) =>
        LET q == mailslot[m].read_q
            C == async_terminate_queue(Cur, m, STATUS_CANCELLED)
            D == mailslot_destroy(Cur, m)
            T == LastRelease(m)
            r == CreateMailslotHandler(clear_error(T), mailslot[m].name,
                                       100, MAILSLOT_WAIT_FOREVER, "ok", <<"x">>)
        IN  /\ \A a \in SeqRange(q) : D.async[a].delivered = <<STATUS_CANCELLED>>
            /\ \A a \in AsyncIds \ SeqRange(q) : D.async[a] = async[a]
            /\ D.mailslot[m].read_q = <<>>
            /\ C.mailslot[m].fd /\ C.mailslot[m].write_fd /\ C.async = D.async
            /\ ~D.mailslot[m].fd /\ ~D.mailslot[m].write_fd
            /\ ~T.aborted
            /\ T.async = D.async
            /\ \A a \in AsyncIds : T.async[a].mailslot = m => T.async[a].delivered # <<>>
            /\ \A n \in Slots : ~(T.mailslot[n].live /\ T.mailslot[n].name = mailslot[m].name)
            /\ r.S.err = STATUS_SUCCESS
            /\ r.handle # NoHandle
            /\ r.S.mailslot[r.handle[2]].name = mailslot[m].name

\* Two reads accepted on a mailslot were cancelled, and the mailslot is gone.
C13_Witness ==
    \E m \in Slots, a, b \in AsyncIds :
        /\ a # b
        /\ async[a].mailslot = m /\ async[a].delivered = <<STATUS_CANCELLED>>
        /\ async[b].mailslot = m /\ async[b].delivered = <<STATUS_CANCELLED>>
        /\ ~mailslot[m].live

\* C14: a read is given a deadline iff read_timeout is not
\* MAILSLOT_WAIT_FOREVER when it is accepted.  The expiry of the deadline of a
\* queued read completes it with STATUS_TIMEOUT and takes it off the queue,
\* the other reads staying queued in their order and without a status.
\* STATUS_TIMEOUT is delivered only to a queued read that has a deadline, so
\* never to a read accepted under MAILSLOT_WAIT_FOREVER.
C14_Deadline ==
    /\ [](~aborted =>
          /\ \A m \in handles :
                (mailslot[m].writers # <<>> /\ msgs[m] # <<>> /\ FreeAsyncIds # {}) =>
                LET T == mailslot_queue_async(clear_error(Cur), m, ASYNC_TYPE_READ, TRUE)
                    a == Min(FreeAsyncIds)
                IN  /\ a \in SeqRange(T.mailslot[m].read_q)
                    /\ T.async[a].timeout =
                           (mailslot[m].read_timeout # MAILSLOT_WAIT_FOREVER)
          /\ \A a \in AsyncIds : async[a].timeout => Queued(a)
          /\ \A m \in Slots : \A a \in SeqRange(mailslot[m].read_q) :
                LET q == mailslot[m].read_q
                    T == async_terminate(Cur, m, a, STATUS_TIMEOUT)
                IN  /\ T.async[a].delivered = <<STATUS_TIMEOUT>>
                    /\ T.mailslot[m].read_q = RemoveAt(q, IndexOf(q, a))
                    /\ \A b \in AsyncIds \ {a} : T.async[b] = async[b])
    /\ [][\A a \in AsyncIds :
             (STATUS_TIMEOUT \in SeqRange(async'[a].delivered)
                 /\ STATUS_TIMEOUT \notin SeqRange(async[a].delivered))
             => (async[a].timeout /\ Queued(a))]_vars

\* Of three reads on one mailslot the second timed out; the first, accepted
\* under MAILSLOT_WAIT_FOREVER, and the third are still queued in their order.
C14_Witness ==
    \E m \in Slots, a, b, c \in AsyncIds :
        /\ async[b].mailslot = m
        /\ async[b].delivered = <<STATUS_TIMEOUT>>
        /\ a < b /\ b < c
        /\ mailslot[m].read_q = <<a, c>>
        /\ ~async[a].timeout

ValidHandle(h) == \E m \in handles : h = MailslotHandle(m)

\* C15: a set_mailslot_info request on the handle of a mailslot changes
\* read_timeout, to the requested value, iff MAILSLOT_SET_READ_TIMEOUT is in
\* the flags, replies the resulting read_timeout and the max_msgsize, and
\* changes nothing else: not max_msgsize, the writers, the queue, the queued
\* reads and their deadlines, or the armed poll events, and the datagrams
\* buffered after it are those the processes holding handles left there by
\* their receives and sends, the handler taking none.  On any other handle it fails and changes nothing.
C15_SetInfoFrame ==
    ~aborted =>
    \A h \in Handles, flags \in InfoFlags, to \in ReadTimeouts :
        \A between \in HandleSteps(Cur, h) :
        LET r == SetMailslotInfoHandler(clear_error(Cur), h, flags, to, between)
        IN  /\ ValidHandle(h) =>
                 LET m == h[2]
                     new == IF MAILSLOT_SET_READ_TIMEOUT \in flags
                            THEN to ELSE mailslot[m].read_timeout
                 IN  /\ r.S = transport_steps(
                                [clear_error(Cur) EXCEPT !.mailslot[m].read_timeout = new],
                                m, between)
                     /\ between = <<>> => r.S.msgs = msgs
                     /\ r.reply.read_timeout = new
                     /\ r.reply.max_msgsize = mailslot[m].max_msgsize
            /\ ~ValidHandle(h) =>
                 /\ r.S.err \in {STATUS_INVALID_HANDLE, STATUS_OBJECT_TYPE_MISMATCH}
                 /\ r.S = set_error(Cur, r.S.err)

\* read_timeout was set to MAILSLOT_WAIT_FOREVER on a mailslot with a datagram
\* buffered and two queued reads, the first of which keeps its deadline.
C15_Witness ==
    \E m \in handles :
        /\ mailslot[m].read_timeout = MAILSLOT_WAIT_FOREVER
        /\ Len(mailslot[m].read_q) = 2
        /\ async[mailslot[m].read_q[1]].timeout
        /\ msgs[m] # <<>>
        /\ err = STATUS_SUCCESS

\* C16: set_mailslot_info replies msg_count 1 iff a datagram is buffered when
\* it polls the socket and 0 otherwise, and as next_msgsize the size of the
\* oldest datagram buffered when it peeks, or MAILSLOT_NO_MESSAGE iff none is
\* buffered then; it takes no datagram off the socket.  With no write to and
\* no read from the socket, next_msgsize is MAILSLOT_NO_MESSAGE iff msg_count
\* is 0, and a second request made right after the first, whatever its flags,
\* replies the same msg_count and next_msgsize.
C16_InfoReport ==
    ~aborted =>
    \A m \in handles, f1 \in InfoFlags, t1 \in ReadTimeouts :
        \A b1 \in EnabledSteps(Cur, m) :
        LET r1 == SetMailslotInfoHandler(clear_error(Cur), MailslotHandle(m), f1, t1, b1)
            peeked == transport_steps(Cur, m, b1).msgs[m]
        IN  /\ r1.reply.msg_count = IF msgs[m] # <<>> THEN 1 ELSE 0
            /\ r1.reply.next_msgsize =
                   IF peeked # <<>> THEN Head(peeked) ELSE MAILSLOT_NO_MESSAGE
            /\ (r1.reply.next_msgsize = MAILSLOT_NO_MESSAGE) <=> (peeked = <<>>)
            /\ r1.S.msgs[m] = peeked
            /\ b1 = <<>> =>
                 /\ (r1.reply.next_msgsize = MAILSLOT_NO_MESSAGE) <=> (r1.reply.msg_count = 0)
                 /\ r1.S.msgs = msgs
                 /\ \A f2 \in InfoFlags, t2 \in ReadTimeouts :
                      LET r2 == SetMailslotInfoHandler(clear_error(r1.S),
                                                       MailslotHandle(m), f2, t2, <<>>)
                      IN  /\ r2.reply.msg_count = r1.reply.msg_count
                          /\ r2.reply.next_msgsize = r1.reply.next_msgsize
                          /\ r2.S.msgs = msgs

\* An empty datagram and a longer one after it are buffered on a mailslot
\* whose read_timeout was set after a read was accepted.
C16_Witness ==
    \E m \in handles :
        /\ msgs[m] = <<0, 3>>
        /\ mailslot[m].read_timeout # MAILSLOT_WAIT_FOREVER
        /\ mailslot[m].read_q # <<>>
        /\ ~async[Head(mailslot[m].read_q)].timeout

FreeSlot == Slots \ LiveSlots(Cur) # {}

\* C17: when the socket pair or one of its two fd objects cannot be allocated,
\* create_mailslot fails with an error and no handle, the server keeps
\* running (no assertion of mailslot_destroy fails), the name stays unbound
\* and every object is as it was before the request.
C17_AllocFailure ==
    /\ ~aborted
    /\ \A name \in {NameA, NameB, NameMid5}, alloc \in AllocOutcomes \ {"ok"},
          behind \in Behinds :
          (Unbound(name) /\ FreeSlot) =>
          LET r == CreateMailslotHandler(clear_error(Cur), name,
                                         100, MAILSLOT_WAIT_FOREVER, alloc, behind)
          IN  /\ ~r.S.aborted
              /\ r.S.err # STATUS_SUCCESS
              /\ r.handle = NoHandle
              /\ r.S.mailslot = mailslot
              /\ r.S.handles = handles

HandleRefs(m) == IF m \in handles THEN 1 ELSE 0

\* C18 as claimed: a mailslot with writers is live and holds at least one
\* reference per writer, and the destruction of a writer removes that writer
\* and leaves the other writers, the queue, the queued reads, read_timeout
\* and max_msgsize as they were.
C18_Original ==
    /\ \A m \in Slots :
          /\ mailslot[m].writers # <<>> => mailslot[m].live
          /\ mailslot[m].refcount >= Len(mailslot[m].writers)
    /\ ~aborted =>
       \A m \in Slots : \A i \in 1..Len(mailslot[m].writers) :
          LET T == mail_writer_destroy(Cur, m, i)
          IN  /\ T.mailslot[m].writers = RemoveAt(mailslot[m].writers, i)
              /\ T.mailslot[m].read_q = mailslot[m].read_q
              /\ T.mailslot[m].read_timeout = mailslot[m].read_timeout
              /\ T.mailslot[m].max_msgsize = mailslot[m].max_msgsize
              /\ T.async = async

\* C18 amended: a mailslot with writers is live, and its reference count is
\* the number of its writers plus one for its handle.  The destruction of a
\* writer removes that writer and releases one reference; while the mailslot
\* has another reference, the other writers, the queue, the queued reads and
\* the configuration stay as they were; when the writer held the last
\* reference, the mailslot is destroyed with it: its queued reads are
\* cancelled and its name is unbound.
C18_WriterLifetime ==
    /\ \A m \in Slots :
          /\ mailslot[m].writers # <<>> => mailslot[m].live
          /\ mailslot[m].live =>
                mailslot[m].refcount = Len(mailslot[m].writers) + HandleRefs(m)
    /\ ~aborted =>
       \A m \in Slots : \A i \in 1..Len(mailslot[m].writers) :
          LET T == mail_writer_destroy(Cur, m, i)
              q == mailslot[m].read_q
          IN  /\ \A n \in Slots \ {m} : T.mailslot[n] = mailslot[n]
              /\ mailslot[m].refcount > 1 =>
                   /\ T.mailslot[m] =
                         [mailslot[m] EXCEPT !.writers = RemoveAt(@, i),
                                             !.refcount = @ - 1]
                   /\ T.async = async
              /\ mailslot[m].refcount = 1 =>
                   /\ T.mailslot[m] = FreeMailslot
                   /\ \A a \in SeqRange(q) : T.async[a].delivered = <<STATUS_CANCELLED>>
                   /\ \A a \in AsyncIds \ SeqRange(q) : T.async[a] = async[a]

\* The handle of a mailslot is closed and its last writer holds the last
\* reference, with a read queued; another read of the mailslot was alerted.
C18_Witness ==
    \E m \in Slots, a \in AsyncIds :
        /\ mailslot[m].live /\ m \notin handles
        /\ Len(mailslot[m].writers) = 1
        /\ mailslot[m].refcount = 1
        /\ mailslot[m].read_q # <<>>
        /\ async[a].mailslot = m /\ async[a].delivered = <<STATUS_ALERTED>>

\* C19: the poll events armed on the read fd of a live mailslot are POLLIN
\* iff its queue is not empty, and none otherwise.
C19_PollInterest ==
    \A m \in Slots : mailslot[m].live =>
        events[m] = IF mailslot[m].read_q # <<>> THEN {POLLIN} ELSE {}

\* C20: when mailslot_queue_async accepts a read and the socket is readable
\* as it checks the fd, the head of the queue with the new read at its tail
\* is completed with STATUS_ALERTED before the request returns, and only it,
\* so that the queue is as long as before; when the socket is not readable
\* the new read stays at the tail, no read is completed and POLLIN is armed.
C20_ImmediateService ==
    ~aborted =>
    \A m \in handles, drained \in BOOLEAN :
        (mailslot[m].writers # <<>> /\ msgs[m] # <<>> /\ FreeAsyncIds # {}) =>
        LET T == mailslot_queue_async(clear_error(Cur), m, ASYNC_TYPE_READ, drained)
            a == Min(FreeAsyncIds)
            q == Append(mailslot[m].read_q, a)
        IN  /\ ~drained =>
                 /\ T.async[Head(q)].delivered = <<STATUS_ALERTED>>
                 /\ \A b \in AsyncIds \ {Head(q), a} : T.async[b] = async[b]
                 /\ T.mailslot[m].read_q = Tail(q)
                 /\ Len(T.mailslot[m].read_q) = Len(mailslot[m].read_q)
                 /\ T.events[m] = IF Tail(q) # <<>> THEN {POLLIN} ELSE {}
                 /\ T.msgs = msgs
            /\ drained =>
                 /\ T.mailslot[m].read_q = q
                 /\ T.async[a].delivered = <<>>
                 /\ \A b \in AsyncIds \ {a} : T.async[b] = async[b]
                 /\ T.events[m] = {POLLIN}

\* The oldest read of a mailslot was alerted, a read accepted after it is
\* queued, POLLIN is armed and a datagram is still buffered.
C20_Witness ==
    \E m \in handles, a, b \in AsyncIds :
        /\ a < b
        /\ async[a].mailslot = m /\ async[a].delivered = <<STATUS_ALERTED>>
        /\ mailslot[m].read_q = <<b>>
        /\ events[m] = {POLLIN}
        /\ msgs[m] # <<>>
        /\ err = STATUS_SUCCESS

====
